---- MODULE Spec2Model ----
(***************************************************************************)
(* webtimelapse (main.py): the capture scheduler of main() with the        *)
(* capture procedure capture_once(), and the frame assembly pipeline       *)
(* maybe_build_video().                                                    *)
(*                                                                         *)
(* Time is an integer clock of seconds.  One capture_once() call takes a   *)
(* positive time (page load and its settle waits), charged when the page   *)
(* is loaded; the inter-tick time.sleep(s) advances the clock by s; every  *)
(* other statement takes no time.  The browser driver, the file system and *)
(* the encoder are the environment: each of their calls either succeeds or *)
(* raises, and a KeyboardInterrupt may arrive in any blocking call.        *)
(***************************************************************************)
EXTENDS Integers, Sequences, FiniteSets, TLC

\* ------------------------------------------------------------------ bounds

\* largest tick count of a run
MaxShots == 3
\* most restore renames that fail in one call of maybe_build_video
MaxRestoreFaults == 1
\* the largest --duration and --interval of the shot-count specification
MaxDuration == 100
MaxInterval == 30

\* --interval values: not validated by parse_args, so 0 is an input too
Intervals == {0, 10}
\* --shots values (mutually exclusive with --duration)
ShotsArgs == 0..MaxShots
\* --duration values
DurationArgs == {5, 25}
\* seconds one driver.get() (page load and settle) may take
CaptureTimes == {1, 12}
\* content heights the page may report to fullpage_screenshot
PageHeights == {600, 30000}

\* the value None of an absent argument or variable
None == "None"

\* ------------------------------------------------------------------ helpers

Max(a, b) == IF a >= b THEN a ELSE b

Min(a, b) == IF a <= b THEN a ELSE b

\* int(a / b) in place of int(round(a / b)): the quotient truncated
PyTrunc(a, b) == a \div b

\* Python's round(a / b) for integers a, b with b # 0: to the nearest integer,
\* a tie going to the even neighbour
PyRound(a, b) ==
    LET n == IF b < 0 THEN -a ELSE a
        d == IF b < 0 THEN -b ELSE b
        q == IF n >= 0 THEN n \div d ELSE -((-n + d - 1) \div d)
        r == n - q * d
    IN  IF 2 * r < d THEN q
        ELSE IF 2 * r > d THEN q + 1
        ELSE IF q % 2 = 0 THEN q ELSE q + 1

\* main.py:162-166, the number of shots of a run whose division succeeds
ComputeShots(a) ==
    IF a.given = "shots" THEN a.shots
    ELSE Max(1, PyRound(a.duration, a.interval))

\* ------------------------------------------------------------------ files

\* get_timestamped_name(idx): screenshot_<idx>_<timestamp>.png
get_timestamped_name(idx, now) == [kind |-> "screenshot", idx |-> idx, ts |-> now]

\* temp_<i>.png of maybe_build_video
TempName(k) == [kind |-> "temp", idx |-> k, ts |-> 0]

\* os.path.join(folder, video_name)
VideoName == [kind |-> "video", idx |-> 0, ts |-> 0]

\* a file of the output folder: its name, its modification time and the frame
\* it holds (session "this": a frame of this run's tick idx; "old": a frame a
\* previous run left in the folder)
File(name, mtime, session, idx) ==
    [name |-> name, mtime |-> mtime, frame |-> [session |-> session, idx |-> idx]]

\* the folders a run may find: ensure_out_dir() accepts an existing folder
\* (exist_ok=True), and ./captures is the default of every run: an empty
\* folder, one old frame (its name sorts behind this run's first frame, its
\* modification time before), and two old frames of equal modification time
OldStores ==
    { {},
      { File(get_timestamped_name(1, -9), -2, "old", 1) },
      { File(get_timestamped_name(0, -9), -1, "old", 0),
        File(get_timestamped_name(1, -8), -1, "old", 1) } }

Names(d) == { f.name : f \in d }

\* driver.save_screenshot(path) succeeding: the file is (re)written now
WriteFile(d, name, now, idx) ==
    { f \in d : f.name # name } \cup { File(name, now, "this", idx) }

\* os.rename(src, dst) succeeding: dst is replaced if it exists
Rename(d, src, dst) ==
    LET f == CHOOSE x \in d : x.name = src
    IN  { x \in d : x.name # src /\ x.name # dst }
            \cup { [f EXCEPT !.name = dst] }

\* ------------------------------------------------------------------ state

VARIABLES
    args,          \* parse_args(): interval, fullpage, and shots or duration
                   \* (given names the one supplied, the other reads 0)
    pc,            \* position of the single thread of control
    exc,           \* the exception propagating, or None
    nshots,        \* main: nshots
    driver,        \* main: driver (None until new_driver returns)
    launched,      \* a browser process exists (webdriver.Chrome returned)
    quits,         \* number of driver.quit() calls
    i,             \* main: loop index
    clock,         \* datetime.now()
    t0,            \* main: t0
    viewport,      \* the browser window size [w, h]
    max_height,    \* fullpage_screenshot: max_height (0 outside its use)
    snap,          \* the call that wrote the running tick's frame: None,
                   \* "fullpage" (main.py:93), "fallback" (main.py:96) or
                   \* "viewport" (main.py:98)
    dir,           \* the output folder: a set of files
    attempts,      \* sequence indices of the capture_once calls made
    outcomes,      \* per tick, what the loop printed: "done" or "error"
    starts,        \* per tick, its recorded start t0
    sleeps,        \* the arguments of the inter-tick time.sleep calls
    build,         \* maybe_build_video's locals and record (see BuildInit)
    exit           \* how the process ended: None while it runs, "ok"
                   \* (status 0), "interrupted" (the message of __main__,
                   \* status 1) or "traceback" (uncaught exception, non-zero
                   \* status)

vars == << args, pc, exc, nshots, driver, launched, quits, i, clock, t0,
           viewport, max_height, snap, dir, attempts, outcomes, starts, sleeps,
           build, exit >>

\* maybe_build_video before it is called
BuildInit ==
    [ dir0    |-> {},        \* the folder when the call began
      ffmpeg  |-> None,      \* shutil.which("ffmpeg"): "found" or "missing"
      files   |-> << >>,     \* screenshot_files
      temps   |-> << >>,     \* temp_files: pairs << original, temp >>
      k       |-> 0,         \* index of the running for loop
      renames |-> 0,         \* os.rename calls made
      runs    |-> 0,         \* subprocess.run calls made
      input   |-> << >>,     \* the frames the encoder read, in glob order
      rc      |-> 0,         \* res.returncode (read after a run only)
      lost    |-> {},        \* temp files whose restore rename failed
      diag    |-> None,      \* the message printed
      result  |-> None ]     \* the value returned, "raised" if it raised

ArgsSet ==
    { a \in [ interval : Intervals, given : {"shots", "duration"},
              shots : ShotsArgs, duration : DurationArgs \cup {0},
              fullpage : BOOLEAN ] :
        /\ a.given = "shots" => a.duration = 0
        /\ a.given = "duration" => a.shots = 0 /\ a.duration # 0
        /\ (a.given = "duration" /\ a.interval # 0)
              => ComputeShots(a) <= MaxShots }

\* the state in which main() is entered, whatever the arguments
Start ==
    /\ pc = "main"
    /\ exc = None
    /\ nshots = 0
    /\ driver = None
    /\ launched = FALSE
    /\ quits = 0
    /\ i = 0
    /\ clock = 0
    /\ t0 = 0
    /\ viewport = [w |-> 1280, h |-> 800]
    /\ max_height = 0
    /\ snap = None
    /\ dir \in OldStores
    /\ attempts = << >>
    /\ outcomes = << >>
    /\ starts = << >>
    /\ sleeps = << >>
    /\ build = BuildInit
    /\ exit = None

Init ==
    /\ args \in ArgsSet
    /\ Start

\* ------------------------------------------------------------------ main()

\* main.py:206-211: how the process ends when main() returns (e = None) or
\* when exception e leaves it
dunder_main(e) ==
    IF e = None THEN "ok"
    ELSE IF e = "KeyboardInterrupt" THEN "interrupted"
    ELSE "traceback"

\* setup.py:45-49, the console script webtimelapse=main:main: main() is
\* called directly, so every exception that leaves it, KeyboardInterrupt
\* included, ends the process in a traceback
console_script(e) ==
    IF e = None THEN "ok" ELSE "traceback"

\* the ways the process ends when main() is left with e: it was started as
\* a script (python main.py, ./main.py) or as the console script; the two
\* differ in nothing before this point
ProcessEnd(e) == { dunder_main(e), console_script(e) }

\* main.py:158-172: the shot count; a zero interval with --duration raises
\* ZeroDivisionError before the try block, so nothing is acquired or released
main_shots ==
    /\ pc = "main"
    /\ IF args.given = "duration" /\ args.interval = 0
       THEN /\ exc' = "Exception"
            /\ exit' \in ProcessEnd(exc')
            /\ pc' = "exited"
            /\ UNCHANGED nshots
       ELSE /\ nshots' = ComputeShots(args)
            /\ pc' = "new_driver"
            /\ UNCHANGED << exc, exit >>
    /\ UNCHANGED << args, driver, launched, quits, i, clock, t0, viewport,
                    max_height, snap, dir, attempts, outcomes, starts, sleeps,
                    build >>

\* main() catching the error of new_driver and going on without a driver
new_driver_Chrome_swallow ==
    /\ pc = "new_driver"
    /\ \/ /\ launched' = TRUE
          /\ pc' = "set_timeout"
          /\ UNCHANGED exc
       \/ /\ pc' = "loop"
          /\ UNCHANGED << launched, exc >>
    /\ UNCHANGED << args, nshots, driver, quits, i, clock, t0, viewport,
                    max_height, snap, dir, attempts, outcomes, starts, sleeps,
                    build, exit >>

\* main.py:51, webdriver.Chrome(options=opts) inside new_driver
new_driver_Chrome ==
    /\ pc = "new_driver"
    /\ \/ /\ launched' = TRUE
          /\ pc' = "set_timeout"
          /\ UNCHANGED exc
       \/ /\ exc' \in {"Exception", "KeyboardInterrupt"}
          /\ pc' = "finally"
          /\ UNCHANGED launched
    /\ UNCHANGED << args, nshots, driver, quits, i, clock, t0, viewport,
                    max_height, snap, dir, attempts, outcomes, starts, sleeps, build,
                    exit >>

\* main.py:52-53 and 176: set_page_load_timeout, then main's driver is bound
new_driver_return ==
    /\ pc = "set_timeout"
    /\ \/ /\ driver' = "driver"
          /\ pc' = "loop"
          /\ UNCHANGED exc
       \/ /\ exc' \in {"Exception", "KeyboardInterrupt"}
          /\ pc' = "finally"
          /\ UNCHANGED driver
    /\ UNCHANGED << args, nshots, launched, quits, i, clock, t0, viewport,
                    max_height, snap, dir, attempts, outcomes, starts, sleeps, build,
                    exit >>

\* main.py:179-180, img_path of the running tick
img_path == get_timestamped_name(i, t0)

\* main() calling maybe_build_video inside the try block, at the end of the
\* loop and so before the finally block
main_loop_build ==
    /\ pc = "loop"
    /\ IF i < nshots
       THEN /\ t0' = clock
            /\ attempts' = Append(attempts, i)
            /\ starts' = Append(starts, clock)
            /\ pc' = "get"
       ELSE /\ pc' = "which"
            /\ UNCHANGED << t0, attempts, starts >>
    /\ UNCHANGED << args, exc, nshots, driver, launched, quits, i, clock,
                    viewport, max_height, snap, dir, outcomes, sleeps, build, exit >>

\* main.py:178-185 and 196-197: the loop head; a tick records its start and
\* calls capture_once, the exhausted range leaves the try block
main_loop ==
    /\ pc = "loop"
    /\ IF i < nshots
       THEN /\ t0' = clock
            /\ attempts' = Append(attempts, i)
            /\ starts' = Append(starts, clock)
            /\ pc' = "get"
       ELSE /\ pc' = "finally"
            /\ UNCHANGED << t0, attempts, starts >>
    /\ UNCHANGED << args, exc, nshots, driver, launched, quits, i, clock,
                    viewport, max_height, snap, dir, outcomes, sleeps, build, exit >>

\* main() calling capture_once outside the try/except of main.py:184-188:
\* the error of a page load leaves main()
capture_once_get_fatal ==
    /\ pc = "get"
    /\ \E d \in CaptureTimes :
          /\ clock' = clock + d
          /\ \/ pc' = "scroll" /\ UNCHANGED exc
             \/ pc' = "finally" /\ exc' = "Exception"
             \/ pc' = "finally" /\ exc' = "KeyboardInterrupt"
    /\ UNCHANGED << args, nshots, driver, launched, quits, i, t0, viewport,
                    max_height, snap, dir, attempts, outcomes, starts, sleeps, build,
                    exit >>

\* main.py:88-89, driver.get(url) and the settle wait
capture_once_get ==
    /\ pc = "get"
    /\ \E d \in CaptureTimes :
          /\ clock' = clock + d
          /\ \/ pc' = "scroll" /\ UNCHANGED exc
             \/ pc' = "except" /\ UNCHANGED exc
             \/ pc' = "finally" /\ exc' = "KeyboardInterrupt"
    /\ UNCHANGED << args, nshots, driver, launched, quits, i, t0, viewport,
                    max_height, snap, dir, attempts, outcomes, starts, sleeps, build,
                    exit >>

\* main.py:90-98, scroll_to_top and the choice of the snapshot
capture_once_scroll ==
    /\ pc = "scroll"
    /\ \/ pc' = (IF args.fullpage THEN "fp_height" ELSE "viewport")
       \/ pc' = "except"
    /\ UNCHANGED << args, exc, nshots, driver, launched, quits, i, clock, t0,
                    viewport, max_height, snap, dir, attempts, outcomes,
                    starts, sleeps, build, exit >>

\* main.py:76, the cap on the window height
HeightCap == 20000

\* fullpage_screenshot without the min() of main.py:76: the window gets the
\* whole content height
fullpage_screenshot_height_nocap ==
    /\ pc = "fp_height"
    /\ \/ \E h \in PageHeights :
             /\ max_height' = h
             /\ pc' = "fp_resize"
             /\ UNCHANGED exc
       \/ pc' = "fallback" /\ UNCHANGED << max_height, exc >>
       \/ pc' = "finally" /\ exc' = "KeyboardInterrupt" /\ UNCHANGED max_height
    /\ UNCHANGED << args, nshots, driver, launched, quits, i, clock, t0,
                    viewport, snap, dir, attempts, outcomes, starts, sleeps,
                    build, exit >>

\* main.py:68-76, the content height, capped; main.py:94-96 on an error
fullpage_screenshot_height ==
    /\ pc = "fp_height"
    /\ \/ \E h \in PageHeights :
             /\ max_height' = Min(h, HeightCap)
             /\ pc' = "fp_resize"
             /\ UNCHANGED exc
       \/ pc' = "fallback" /\ UNCHANGED << max_height, exc >>
       \/ pc' = "finally" /\ exc' = "KeyboardInterrupt" /\ UNCHANGED max_height
    /\ UNCHANGED << args, nshots, driver, launched, quits, i, clock, t0,
                    viewport, snap, dir, attempts, outcomes, starts, sleeps,
                    build, exit >>

\* main.py:78-79, get_window_size and set_window_size; main.py:94-96 on an
\* error
fullpage_screenshot_resize ==
    /\ pc = "fp_resize"
    /\ \/ /\ viewport' = [w |-> viewport.w, h |-> max_height]
          /\ pc' = "fp_save"
       \/ pc' = "fallback" /\ UNCHANGED viewport
    /\ max_height' = 0
    /\ UNCHANGED << args, exc, nshots, driver, launched, quits, i, clock, t0,
                    snap, dir, attempts, outcomes, starts, sleeps, build,
                    exit >>

\* main.py:81-82, the settle and save_screenshot; main.py:94-96 on an error
fullpage_screenshot_save ==
    /\ pc = "fp_save"
    /\ \/ /\ dir' = WriteFile(dir, img_path, clock, i)
          /\ snap' = "fullpage"
          /\ pc' = "returned"
          /\ UNCHANGED exc
       \/ pc' = "fallback" /\ UNCHANGED << dir, snap, exc >>
       \/ /\ pc' = "finally"
          /\ exc' = "KeyboardInterrupt"
          /\ UNCHANGED << dir, snap >>
    /\ UNCHANGED << args, nshots, driver, launched, quits, i, clock, t0,
                    viewport, max_height, attempts, outcomes, starts, sleeps,
                    build, exit >>

\* capture_once whose handler takes the viewport snapshot and then re-raises
\* the error of the full-page attempt
viewport_screenshot_reraise ==
    /\ pc \in {"fallback", "viewport"}
    /\ \/ /\ dir' = WriteFile(dir, img_path, clock, i)
          /\ snap' = pc
          /\ pc' = (IF pc = "fallback" THEN "except" ELSE "returned")
       \/ pc' = "except" /\ UNCHANGED << dir, snap >>
    /\ UNCHANGED << args, exc, nshots, driver, launched, quits, i, clock, t0,
                    viewport, max_height, attempts, outcomes, starts, sleeps,
                    build, exit >>

\* main.py:84-85, called at main.py:96 (pc "fallback") or main.py:98 (pc
\* "viewport"); its error leaves capture_once
viewport_screenshot ==
    /\ pc \in {"fallback", "viewport"}
    /\ \/ /\ dir' = WriteFile(dir, img_path, clock, i)
          /\ snap' = pc
          /\ pc' = "returned"
       \/ pc' = "except" /\ UNCHANGED << dir, snap >>
    /\ UNCHANGED << args, exc, nshots, driver, launched, quits, i, clock, t0,
                    viewport, max_height, attempts, outcomes, starts, sleeps,
                    build, exit >>

\* main.py:186, capture_once returned
main_done ==
    /\ pc = "returned"
    /\ outcomes' = Append(outcomes, "done")
    /\ pc' = "pace"
    /\ UNCHANGED << args, exc, nshots, driver, launched, quits, i, clock, t0,
                    viewport, max_height, snap, dir, attempts, starts, sleeps,
                    build, exit >>

\* main() without the try/except around capture_once: the error of one
\* capture leaves the loop
main_except_abort ==
    /\ pc = "except"
    /\ outcomes' = Append(outcomes, "error")
    /\ exc' = "Exception"
    /\ pc' = "finally"
    /\ UNCHANGED << args, nshots, driver, launched, quits, i, clock, t0,
                    viewport, max_height, snap, dir, attempts, starts, sleeps,
                    build, exit >>

\* main.py:187-188, capture_once raised an Exception
main_except ==
    /\ pc = "except"
    /\ outcomes' = Append(outcomes, "error")
    /\ pc' = "pace"
    /\ UNCHANGED << args, exc, nshots, driver, launched, quits, i, clock, t0,
                    viewport, max_height, snap, dir, attempts, starts, sleeps,
                    build, exit >>

\* a sleep of the whole interval, the time the capture took not deducted
SleepForInterval(interval, elapsed) == Max(0, interval)

\* main.py:193, sleep_for
SleepFor(interval, elapsed) == Max(0, interval - elapsed)

\* main.py:191-193: the tick's capture is over; whether to sleep, and for
\* how long
main_pace ==
    /\ pc = "pace"
    /\ IF i < nshots - 1
       THEN /\ sleeps' = Append(sleeps, SleepFor(args.interval, clock - t0))
            /\ pc' = "sleep"
            /\ UNCHANGED i
       ELSE /\ i' = i + 1
            /\ pc' = "loop"
            /\ UNCHANGED sleeps
    /\ snap' = None
    /\ UNCHANGED << args, exc, nshots, driver, launched, quits, clock, t0,
                    viewport, max_height, dir, attempts, outcomes, starts,
                    build, exit >>

\* main.py:194, time.sleep(sleep_for)
main_sleep ==
    /\ pc = "sleep"
    /\ \/ /\ clock' = clock + sleeps[Len(sleeps)]
          /\ i' = i + 1
          /\ pc' = "loop"
          /\ UNCHANGED exc
       \/ /\ exc' = "KeyboardInterrupt"
          /\ pc' = "finally"
          /\ UNCHANGED << clock, i >>
    /\ UNCHANGED << args, nshots, driver, launched, quits, t0, viewport,
                    max_height, snap, dir, attempts, outcomes, starts, sleeps, build,
                    exit >>

\* main() with driver.quit() behind the loop instead of in a finally block:
\* an exception leaves main() without the release
main_finally_leak ==
    /\ pc = "finally"
    /\ quits' = IF driver # None /\ exc = None THEN quits + 1 ELSE quits
    /\ \/ /\ exc = None
          /\ pc' = "which"
          /\ UNCHANGED << exc, exit >>
       \/ /\ exc # None
          /\ exit' \in ProcessEnd(exc)
          /\ pc' = "exited"
          /\ UNCHANGED exc
    /\ UNCHANGED << args, nshots, driver, launched, i, clock, t0, viewport,
                    max_height, snap, dir, attempts, outcomes, starts, sleeps,
                    build >>

\* main() calling maybe_build_video inside its finally block, behind
\* driver.quit(): an interrupted run assembles its video too
main_finally_build ==
    /\ pc = "finally"
    /\ quits' = IF driver # None THEN quits + 1 ELSE quits
    /\ \/ /\ pc' = "which"
          /\ UNCHANGED << exc, exit >>
       \/ /\ driver # None /\ exc = None
          /\ exc' = "KeyboardInterrupt"
          /\ exit' \in ProcessEnd(exc')
          /\ pc' = "exited"
    /\ UNCHANGED << args, nshots, driver, launched, i, clock, t0, viewport,
                    max_height, snap, dir, attempts, outcomes, starts, sleeps,
                    build >>

\* main.py:199-204: the finally block, then the call of maybe_build_video,
\* or the exception leaves main(); an interruption may also arrive in quit()
main_finally ==
    /\ pc = "finally"
    /\ quits' = IF driver # None THEN quits + 1 ELSE quits
    /\ \/ /\ exc = None
          /\ pc' = "which"
          /\ UNCHANGED << exc, exit >>
       \/ /\ exc # None
          /\ exit' \in ProcessEnd(exc)
          /\ pc' = "exited"
          /\ UNCHANGED exc
       \/ /\ driver # None /\ exc = None
          /\ exc' = "KeyboardInterrupt"
          /\ exit' \in ProcessEnd(exc')
          /\ pc' = "exited"
    /\ UNCHANGED << args, nshots, driver, launched, i, clock, t0, viewport,
                    max_height, snap, dir, attempts, outcomes, starts, sleeps,
                    build >>

\* ------------------------------------------------------- maybe_build_video()

\* the variables maybe_build_video leaves alone
schedVars == << args, nshots, driver, launched, quits, i, clock, t0, viewport,
                max_height, snap, attempts, outcomes, starts, sleeps >>

\* maybe_build_video printing the advice and then going on without the
\* return of main.py:110
maybe_build_video_which_noreturn ==
    /\ pc = "which"
    /\ \/ build' = [build EXCEPT !.dir0 = dir, !.ffmpeg = "missing",
                                 !.diag = "ffmpeg not found"]
       \/ build' = [build EXCEPT !.dir0 = dir, !.ffmpeg = "found"]
    /\ pc' = "glob"
    /\ UNCHANGED << schedVars, exc, dir, exit >>

\* main.py:105-110: the encoder is looked up; without it the call returns
maybe_build_video_which ==
    /\ pc = "which"
    /\ \/ /\ build' = [build EXCEPT !.dir0 = dir, !.ffmpeg = "missing",
                                    !.diag = "ffmpeg not found",
                                    !.result = "False"]
          /\ exit' \in ProcessEnd(exc)
          /\ pc' = "exited"
       \/ /\ build' = [build EXCEPT !.dir0 = dir, !.ffmpeg = "found"]
          /\ pc' = "glob"
          /\ UNCHANGED exit
    /\ UNCHANGED << schedVars, exc, dir >>

\* every order of the elements of a set
RECURSIVE Orders(_)
Orders(S) ==
    IF S = {} THEN { << >> }
    ELSE UNION { { << x >> \o rest : rest \in Orders(S \ {x}) } : x \in S }

\* main.py:114, glob.glob(folder/screenshot_*.png): the matching paths, in
\* any order
Glob(d) == Orders({ f.name : f \in { x \in d : x.name.kind = "screenshot" } })

\* screenshot_files.sort() without the key: the paths in the order of
\* their names, sequence index first, then timestamp
name_order_key(d, name) == name.idx * 1000 + name.ts

\* main.py:115, os.path.getmtime(path)
getmtime(d, name) == (CHOOSE f \in d : f.name = name).mtime

\* list.sort(key=...) is stable: x goes behind every element whose key is
\* not larger
RECURSIVE InsertByKey(_, _, _)
InsertByKey(sorted, x, d) ==
    IF sorted = << >> THEN << x >>
    ELSE IF getmtime(d, sorted[Len(sorted)]) <= getmtime(d, x)
         THEN Append(sorted, x)
         ELSE Append(InsertByKey(SubSeq(sorted, 1, Len(sorted) - 1), x, d),
                     sorted[Len(sorted)])

\* main.py:115, screenshot_files.sort(key=os.path.getmtime)
RECURSIVE SortByMtime(_, _)
SortByMtime(paths, d) ==
    IF paths = << >> THEN << >>
    ELSE InsertByKey(SortByMtime(SubSeq(paths, 1, Len(paths) - 1), d),
                     paths[Len(paths)], d)

\* maybe_build_video without the check of main.py:117-119
maybe_build_video_glob_nocheck ==
    /\ pc = "glob"
    /\ \E g \in Glob(dir) :
          build' = [build EXCEPT !.files = SortByMtime(g, dir), !.k = 0]
    /\ pc' = "rename"
    /\ UNCHANGED << schedVars, exc, dir, exit >>

\* main.py:113-119: the frame files in modification order; none is a failure
maybe_build_video_glob ==
    /\ pc = "glob"
    /\ \E g \in Glob(dir) :
          LET screenshot_files == SortByMtime(g, dir)
          IN  IF screenshot_files = << >>
              THEN /\ build' = [build EXCEPT !.diag = "no screenshot files",
                                             !.result = "False"]
                   /\ exit' \in ProcessEnd(exc)
                   /\ pc' = "exited"
              ELSE /\ build' = [build EXCEPT !.files = screenshot_files,
                                             !.k = 0]
                   /\ pc' = "rename"
                   /\ UNCHANGED exit
    /\ UNCHANGED << schedVars, exc, dir >>

\* main.py:122-126: the rename loop; an OSError of os.rename leaves the call
maybe_build_video_rename ==
    /\ pc = "rename"
    /\ IF build.k < Len(build.files)
       THEN LET file_path == build.files[build.k + 1]
                temp_name == TempName(build.k)
            IN  \/ /\ dir' = Rename(dir, file_path, temp_name)
                   /\ build' = [build EXCEPT
                          !.temps = Append(@, << file_path, temp_name >>),
                          !.k = @ + 1, !.renames = @ + 1]
                   /\ pc' = "rename"
                   /\ UNCHANGED << exc, exit >>
                \/ /\ build' = [build EXCEPT !.renames = @ + 1,
                                             !.result = "raised"]
                   /\ exc' = "Exception"
                   /\ exit' \in ProcessEnd(exc')
                   /\ pc' = "exited"
                   /\ UNCHANGED dir
       ELSE /\ pc' = "encode"
            /\ UNCHANGED << build, exc, dir, exit >>
    /\ UNCHANGED schedVars

\* the files the pattern folder/temp_*.png names, in the ascending name
\* order in which the encoder reads them
RECURSIVE TempSequence(_, _)
TempSequence(d, from) ==
    LET T == { f \in d : f.name.kind = "temp" /\ f.name.idx >= from }
    IN  IF T = {} THEN << >>
        ELSE LET f == CHOOSE x \in T : \A y \in T : x.name.idx <= y.name.idx
             IN  << f.frame >> \o TempSequence(d, f.name.idx + 1)

\* main.py:129-141, subprocess.run(cmd): exit status 0 with the video
\* written, a non-zero exit status, or the call raising
maybe_build_video_encode ==
    /\ pc = "encode"
    /\ LET ran == [build EXCEPT !.runs = @ + 1, !.input = TempSequence(dir, 0),
                                !.k = 0]
       IN  \/ /\ build' = [ran EXCEPT !.rc = 0]
              /\ dir' = { f \in dir : f.name # VideoName }
                            \cup { File(VideoName, clock, "video", 0) }
              /\ pc' = "restore"
              /\ UNCHANGED << exc, exit >>
           \/ /\ build' = [ran EXCEPT !.rc = 1]
              /\ pc' = "restore"
              /\ UNCHANGED << dir, exc, exit >>
           \/ /\ build' = [ran EXCEPT !.result = "raised"]
              /\ exc' \in {"Exception", "KeyboardInterrupt"}
              /\ exit' \in ProcessEnd(exc')
              /\ pc' = "exited"
              /\ UNCHANGED dir
    /\ UNCHANGED schedVars

\* main.py:150-155, the message and the value returned
Report(b) ==
    IF b.rc = 0
    THEN [b EXCEPT !.diag = "video saved", !.result = "True"]
    ELSE [b EXCEPT !.diag = "ffmpeg failed", !.result = "False"]

\* the restore loop leaving at its first failing rename (break in place of
\* pass), the temporary files after it not renamed back
maybe_build_video_restore_break ==
    /\ pc = "restore"
    /\ IF build.k < Len(build.temps)
       THEN LET original_path == build.temps[build.k + 1][1]
                temp_path == build.temps[build.k + 1][2]
            IN  /\ \/ /\ dir' = Rename(dir, temp_path, original_path)
                      /\ build' = [build EXCEPT !.k = @ + 1,
                                                !.renames = @ + 1]
                   \/ /\ Cardinality(build.lost) < MaxRestoreFaults
                      /\ build' = [build EXCEPT !.k = Len(build.temps),
                                       !.renames = @ + 1,
                                       !.lost = @ \cup {temp_path}]
                      /\ UNCHANGED dir
                /\ pc' = "restore"
                /\ UNCHANGED exit
       ELSE /\ build' = Report(build)
            /\ exit' \in ProcessEnd(exc)
            /\ pc' = "exited"
            /\ UNCHANGED dir
    /\ UNCHANGED << schedVars, exc >>

\* main.py:143-155: every temporary file is renamed back, a failing rename
\* is passed over; after the last one the result is reported and returned
maybe_build_video_restore ==
    /\ pc = "restore"
    /\ IF build.k < Len(build.temps)
       THEN LET original_path == build.temps[build.k + 1][1]
                temp_path == build.temps[build.k + 1][2]
            IN  /\ \/ /\ dir' = Rename(dir, temp_path, original_path)
                      /\ build' = [build EXCEPT !.k = @ + 1,
                                                !.renames = @ + 1]
                   \/ /\ Cardinality(build.lost) < MaxRestoreFaults
                      /\ build' = [build EXCEPT !.k = @ + 1,
                                       !.renames = @ + 1,
                                       !.lost = @ \cup {temp_path}]
                      /\ UNCHANGED dir
                /\ pc' = "restore"
                /\ UNCHANGED exit
       ELSE /\ build' = Report(build)
            /\ exit' \in ProcessEnd(exc)
            /\ pc' = "exited"
            /\ UNCHANGED dir
    /\ UNCHANGED << schedVars, exc >>

\* ------------------------------------------------------------ specification

Next ==
    \/ main_shots
    \/ new_driver_Chrome
    \/ new_driver_return
    \/ main_loop
    \/ capture_once_get
    \/ capture_once_scroll
    \/ fullpage_screenshot_height
    \/ fullpage_screenshot_resize
    \/ fullpage_screenshot_save
    \/ viewport_screenshot
    \/ main_done
    \/ main_except
    \/ main_pace
    \/ main_sleep
    \/ main_finally
    \/ maybe_build_video_which
    \/ maybe_build_video_glob
    \/ maybe_build_video_rename
    \/ maybe_build_video_encode
    \/ maybe_build_video_restore

Spec == Init /\ [][Next]_vars

\* ------------------------------------------------------------- properties

\* positions inside the for loop of main(), main.py:178-194
LoopPcs == { "loop", "get", "scroll", "fp_height", "fp_resize", "fp_save",
             "fallback", "viewport", "returned", "except", "pace", "sleep" }

\* positions behind the finally block of main(), main.py:204 and later
AfterFinally == { "which", "glob", "rename", "encode", "restore", "exited" }

\* the tick loop is over: control reached the finally block or went past it
LoopLeft == pc \in {"finally"} \cup AfterFinally

\* C1: the capture attempts carry the sequence indices 0, 1, 2, ... in that
\* order, each once; and when the browser was acquired and no interruption
\* occurred, the loop is left with exactly nshots attempts, whichever of the
\* captures raised an error.
C1_AttemptsZeroToN ==
    /\ \A k \in 1..Len(attempts) : attempts[k] = k - 1
    /\ Len(outcomes) <= Len(attempts)
    /\ (driver # None /\ LoopLeft /\ exc # "KeyboardInterrupt")
          => /\ Len(attempts) = nshots
             /\ Len(outcomes) = nshots

\* a run of three ticks, the first and the last capture failing, has ended
C1_Witness ==
    /\ pc = "exited"
    /\ exit = "ok"
    /\ nshots = 3
    /\ attempts = << 0, 1, 2 >>
    /\ outcomes = << "error", "done", "error" >>

\* C2: driver.quit() is never called twice, never before the tick loop is
\* left and never without an acquired driver; once control is past the
\* finally block of a run that acquired the driver, it has been called
\* exactly once, however the loop was left (completion, capture errors,
\* interruption in a capture or in the inter-tick sleep).
C2_ReleasedExactlyOnce ==
    /\ quits <= 1
    /\ driver = None => quits = 0
    /\ (driver # None /\ pc \in LoopPcs \cup {"finally"}) => quits = 0
    /\ (driver # None /\ pc \in AfterFinally) => quits = 1

\* the first capture raised an error, then the run was interrupted in the
\* inter-tick sleep, and the process has ended
C2_Witness ==
    /\ pc = "exited"
    /\ exit = "interrupted"
    /\ attempts = << 0 >>
    /\ outcomes = << "error" >>
    /\ Len(sleeps) = 1
    /\ quits = 1

\* the frame files of a folder: the files screenshot_*.png
FrameFiles(d) == { f \in d : f.name.kind = "screenshot" }

\* maybe_build_video was called and has returned or raised
BuildOver == pc = "exited" /\ build.ffmpeg # None

\* C3: once maybe_build_video has returned or raised, the folder holds the
\* file names it held when the call began, plus the output video exactly when
\* the call returned True; in particular no temp_NNNNNN.png is left.
C3_StoreRestored ==
    BuildOver =>
        Names(dir) = Names(build.dir0)
                        \cup (IF build.result = "True" THEN {VideoName} ELSE {})

\* C3, the three ways the folder is left altered: a rename of the first loop
\* raising after earlier ones were made, the encoder call raising, and a
\* restore rename that fails
C3_RenameRaisedMidway ==
    ~(BuildOver /\ build.runs = 0 /\ build.result = "raised"
        /\ Len(build.temps) > 0)

C3_EncoderRaised ==
    ~(BuildOver /\ build.runs = 1 /\ build.result = "raised")

C3_RestoreFailed ==
    ~(BuildOver /\ build.lost # {} /\ TempName(0) \in Names(dir))

\* the frames of the ticks whose capture returned, by ascending index
RECURSIVE DoneFrames(_)
DoneFrames(n) ==
    IF n = 0 THEN << >>
    ELSE DoneFrames(n - 1) \o
            (IF outcomes[n] = "done"
             THEN << [session |-> "this", idx |-> n - 1] >> ELSE << >>)

\* C4: when the encoder is run, the files temp_*.png it reads are, in
\* ascending ordinal, exactly the frames of this run's ticks whose capture
\* succeeded, in ascending sequence index.
C4_EncoderReadsSessionFrames ==
    build.runs > 0 => build.input = DoneFrames(Len(outcomes))

\* C4 in a folder that held no frame before the run: there the encoder reads
\* exactly the frames of the successful ticks
C4_InFreshFolder ==
    (build.runs > 0 /\ \A f \in build.dir0 : f.frame.session # "old")
        => build.input = DoneFrames(Len(outcomes))

\* the modification times of a set of files are pairwise distinct
DistinctMtimes(F) == \A f, g \in F : f # g => f.mtime # g.mtime

\* the number of files of F modified before name was
Rank(F, name) ==
    LET f == CHOOSE x \in F : x.name = name
    IN  Cardinality({ g \in F : g.mtime < f.mtime })

\* C5: for frame files of pairwise distinct modification times, the j-th
\* rename gives ordinal j - 1 to the file that has exactly j - 1 files
\* modified before it; when the encoder runs every frame file has its
\* ordinal, 0 .. k - 1, and the encoder reads the frames in that order.
C5_OrdinalsFollowMtime ==
    LET F == FrameFiles(build.dir0)
    IN  DistinctMtimes(F) =>
            /\ \A j \in 1..Len(build.temps) :
                  /\ build.temps[j][2] = TempName(j - 1)
                  /\ build.temps[j][1] \in Names(F)
                  /\ Rank(F, build.temps[j][1]) = j - 1
            /\ build.runs > 0 =>
                  /\ Len(build.temps) = Cardinality(F)
                  /\ Len(build.input) = Cardinality(F)
                  /\ \A j \in 1..Len(build.input) :
                        \E f \in F : /\ f.frame = build.input[j]
                                     /\ Rank(F, f.name) = j - 1

\* three frame files of distinct modification times whose names sort in
\* another order (the old frame has index 1, the new ones 0 and 1) were
\* given their ordinals and the encoder has run
C5_Witness ==
    LET F == FrameFiles(build.dir0)
    IN  /\ build.runs > 0
        /\ Cardinality(F) = 3
        /\ DistinctMtimes(F)
        /\ \E f, g \in F : /\ f.mtime < g.mtime
                           /\ name_order_key(build.dir0, f.name)
                                 > name_order_key(build.dir0, g.name)

\* C6: in full-page mode, when the full-page attempt of a tick raised an
\* error and the viewport snapshot of the handler wrote the frame, capture_once
\* returns and the loop reports the tick as done, not as an error.
C6_FallbackIsNotAnError ==
    snap = "fallback" =>
        /\ args.fullpage
        /\ \/ pc = "returned"
           \/ /\ pc = "pace"
              /\ Len(outcomes) = Len(attempts)
              /\ outcomes[Len(outcomes)] = "done"
        /\ \E f \in dir : f.name = img_path /\ f.frame.idx = i

\* the second tick of a full-page run was reported done after its
\* full-page attempt raised and the fallback wrote the frame
C6_Witness ==
    /\ snap = "fallback"
    /\ pc = "pace"
    /\ outcomes = << "error", "done" >>

\* the time the capture of tick t took, for a tick whose sleep has ended:
\* from its start to the beginning of its sleep
Elapsed(t) == starts[t + 1] - sleeps[t] - starts[t]

\* C7: behind every tick but the last, done or failed, the loop sleeps
\* max(0, interval - elapsed), elapsed counted from the tick's recorded
\* start: the next tick starts interval after this one when elapsed <
\* interval, and with no delay otherwise.  The last tick is followed by no
\* sleep: a loop of N >= 1 ticks that ran to its end slept N - 1 times.  With
\* interval 10 and three captures of 1 the sleeps are 9 and 9 and the third
\* tick starts at 20.
C7_DriftCompensatedSleep ==
    /\ pc = "sleep" =>
          /\ Len(sleeps) = Len(attempts)
          /\ sleeps[Len(sleeps)] = Max(0, args.interval - (clock - t0))
    /\ \A t \in 1..Len(starts) - 1 :
          /\ t <= Len(sleeps)
          /\ sleeps[t] = Max(0, args.interval - Elapsed(t))
          /\ Elapsed(t) < args.interval
                => starts[t + 1] = starts[t] + args.interval
          /\ Elapsed(t) >= args.interval
                => starts[t + 1] = starts[t] + Elapsed(t)
    /\ Len(sleeps) <= Max(0, nshots - 1)
    /\ (driver # None /\ LoopLeft /\ exc # "KeyboardInterrupt")
          => Len(sleeps) = Max(0, nshots - 1)
    /\ (args.interval = 10 /\ nshots = 3 /\ Len(starts) = 3
            /\ Elapsed(1) = 1 /\ Elapsed(2) = 1)
          => sleeps = << 9, 9 >> /\ starts = << 0, 10, 20 >>

\* a loop of three ticks at interval 10 has ended: the first capture failed
\* after 1 and was followed by a sleep of 9, the second took 12 and was
\* followed by a sleep of 0
C7_Witness ==
    /\ pc = "finally"
    /\ exc = None
    /\ args.interval = 10
    /\ nshots = 3
    /\ outcomes = << "error", "done", "done" >>
    /\ sleeps = << 9, 0 >>
    /\ starts = << 0, 10, 22 >>

\* the run of the example: interval 10, three captures of 1, all done
C7_Example ==
    /\ pc = "finally"
    /\ exc = None
    /\ args.interval = 10
    /\ nshots = 3
    /\ outcomes = << "done", "done", "done" >>
    /\ sleeps = << 9, 9 >>
    /\ starts = << 0, 10, 20 >>
    /\ clock = 21

\* C8: with the encoder found and no frame file in the folder,
\* maybe_build_video returns False with the no-frames message, having made
\* no rename and no encoder call and left the folder as it was.
C8_NoFramesNoRename ==
    (build.ffmpeg = "found" /\ FrameFiles(build.dir0) = {} /\ pc # "glob")
        => /\ pc = "exited"
           /\ build.result = "False"
           /\ build.diag = "no screenshot files"
           /\ build.renames = 0
           /\ build.runs = 0
           /\ dir = build.dir0

\* both captures of a run into an empty folder failed, the encoder was found
\* and maybe_build_video has returned
C8_Witness ==
    /\ pc = "exited"
    /\ build.ffmpeg = "found"
    /\ outcomes = << "error", "error" >>
    /\ FrameFiles(build.dir0) = {}
    /\ build.result = "False"

\* C9: with the encoder missing, maybe_build_video returns at once: no rename,
\* no encoder call, the folder exactly as it was, whatever it holds.
C9_SkippedLeavesStore ==
    build.ffmpeg = "missing"
        => /\ pc = "exited"
           /\ build.result = "False"
           /\ build.diag = "ffmpeg not found"
           /\ build.renames = 0
           /\ build.runs = 0
           /\ build.temps = << >>
           /\ dir = build.dir0

\* the encoder was missing for a folder of four frames, two of them old
C9_Witness ==
    /\ pc = "exited"
    /\ build.ffmpeg = "missing"
    /\ Cardinality(FrameFiles(dir)) = 4
    /\ outcomes = << "done", "done" >>

\* C10: when new_driver fails, main() is left with its driver unbound, and
\* then no tick was started, no capture attempted, quit() not called and
\* maybe_build_video not called; the process ends with a non-zero status.
C10_AcquisitionFailureAborts ==
    (driver = None /\ LoopLeft)
        => /\ exc # None
           /\ attempts = << >>
           /\ starts = << >>
           /\ quits = 0
           /\ build = BuildInit
           /\ pc \in {"finally", "exited"}
           /\ pc = "exited" => exit \in {"traceback", "interrupted"}

\* a run asked for three shots has ended in a traceback because
\* webdriver.Chrome raised
C10_Witness ==
    /\ pc = "exited"
    /\ exit = "traceback"
    /\ driver = None
    /\ ~launched
    /\ nshots = 3

\* -------------------------------------------------------------------- C11

\* a KeyboardInterrupt arrived inside the tick loop: in a capture (the tick
\* has no outcome) or in the sleep between two ticks (ticks are left)
InterruptedInLoop ==
    /\ exc = "KeyboardInterrupt"
    /\ driver # None
    /\ \/ Len(outcomes) < Len(attempts)
       \/ Len(attempts) < nshots

\* C11: an interruption that arrives in the tick loop, in a capture (the
\* full-page attempt included) or in the sleep between ticks, is not handled
\* as a capture error: the run goes to the release of the browser and the
\* process ends with the message of the interruption and a non-zero status.
C11_InterruptionEndsRun ==
    InterruptedInLoop
        => /\ pc \in {"finally", "exited"}
           /\ pc = "exited" => (quits = 1 /\ exit = "interrupted")

\* the part of C11 that holds however the process was started: the browser
\* is released and the status is not zero
C11_ReleasedAndNotAnError ==
    InterruptedInLoop
        => /\ pc \in {"finally", "exited"}
           /\ pc = "exited" => (quits = 1 /\ exit # "ok")

\* after an interruption no further tick starts and no outcome is recorded
C11_NoFurtherTick ==
    [][exc = "KeyboardInterrupt"
         => (attempts' = attempts /\ outcomes' = outcomes)]_vars

\* the console script was interrupted in the sleep after its first tick
C11_ConsoleScriptInterrupted ==
    /\ InterruptedInLoop
    /\ pc = "exited"
    /\ exit = "traceback"
    /\ Len(sleeps) = 1
    /\ outcomes = << "done" >>

\* -------------------------------------------------------------------- C12

\* main() entered with --duration and a positive --interval
DurationArgsSet ==
    { [ interval |-> n, given |-> "duration", shots |-> 0, duration |-> d,
        fullpage |-> FALSE ] : n \in 1..MaxInterval, d \in 1..MaxDuration }

ShotsInit ==
    /\ args \in DurationArgsSet
    /\ Start

\* the runs of main.py:161-166 alone, for every duration and interval
ShotsSpec == ShotsInit /\ [][main_shots]_vars

\* n is an integer nearest to d / m
Nearest(n, d, m) ==
    /\ 2 * (n * m - d) <= m
    /\ 2 * (d - n * m) <= m

\* C12: with --duration and positive integers duration and interval, the
\* shot count is at least 1 and is max(1, round(duration / interval)): the
\* integer nearest to the quotient where that is 1 or more, else 1; it is 3
\* for duration 100 and interval 30.
C12_ShotsFromDuration ==
    pc = "new_driver"
        => /\ nshots >= 1
           /\ IF 2 * args.duration < args.interval
              THEN nshots = 1
              ELSE Nearest(nshots, args.duration, args.interval)
           /\ (args.duration = 100 /\ args.interval = 30) => nshots = 3

\* the shot count of --duration 100 --interval 30 is 3
C12_Witness ==
    /\ pc = "new_driver"
    /\ args.duration = 100
    /\ args.interval = 30
    /\ nshots = 3

\* -------------------------------------------------------------------- C13

\* maybe_build_video returned a value
Returned == BuildOver /\ build.result \in {"True", "False"}

\* main.py:150-155, the values returned after the encoder ran: on its
\* success and on its failure
SuccessValue == Report([BuildInit EXCEPT !.rc = 0]).result
FailedValue == Report([BuildInit EXCEPT !.rc = 1]).result

\* C13: the value maybe_build_video returns tells the three outcomes apart:
\* the value of a skipped assembly (no encoder) is neither the value of a
\* failed one (no frames, encoder failure) nor the value of a success, and
\* the value of a failed one is not the value of a success.
C13_ResultTellsOutcome ==
    Returned
        => /\ build.ffmpeg = "missing"
                => build.result \notin {FailedValue, SuccessValue}
           /\ (build.ffmpeg = "found" /\ (build.runs = 0 \/ build.rc # 0))
                => (build.result = FailedValue /\ FailedValue # SuccessValue)

\* the part of C13 that holds: the value of a success is returned after a
\* successful encoder run only
C13_SuccessDiffers ==
    Returned
        => (build.result = SuccessValue
               <=> (build.runs = 1 /\ build.rc = 0))

\* the assembly was skipped after two captured frames
C13_Skipped ==
    /\ Returned
    /\ build.ffmpeg = "missing"
    /\ build.result = FailedValue
    /\ outcomes = << "done", "done" >>

\* -------------------------------------------------------------------- C14

\* maybe_build_video has been called
AssemblyStarted ==
    \/ pc \in {"which", "glob", "rename", "encode", "restore"}
    \/ build # BuildInit

\* the for loop ran over its whole range and driver.quit() has been called
LoopOverAndReleased ==
    /\ driver # None
    /\ quits = 1
    /\ i = nshots
    /\ Len(attempts) = nshots
    /\ Len(outcomes) = nshots

\* C14: maybe_build_video is called only after the tick loop has ended and
\* the browser has been released, and from its call on no step captures or
\* touches the browser: the schedule's variables stay as they are.
C14_AssemblyAfterRelease ==
    /\ [](AssemblyStarted => LoopOverAndReleased)
    /\ [][AssemblyStarted => UNCHANGED schedVars]_vars

\* the encoder is about to run after three ticks, one of them failed, and
\* the release of the browser
C14_Witness ==
    /\ pc = "encode"
    /\ quits = 1
    /\ Len(attempts) = 3
    /\ \E n \in 1..3 : outcomes[n] = "error"

\* -------------------------------------------------------------------- C15

\* main.py:157-204, the steps of main() up to its call of maybe_build_video
MainNext ==
    \/ main_shots
    \/ new_driver_Chrome
    \/ new_driver_return
    \/ main_loop
    \/ capture_once_get
    \/ capture_once_scroll
    \/ fullpage_screenshot_height
    \/ fullpage_screenshot_resize
    \/ fullpage_screenshot_save
    \/ viewport_screenshot
    \/ main_done
    \/ main_except
    \/ main_pace
    \/ main_sleep
    \/ main_finally

\* main() is one thread and each of its blocking calls ends (the page load
\* has the timeout of main.py:52, a sleep is finite): a step that can be
\* taken is taken
FairSpec == Init /\ [][MainNext]_vars /\ WF_vars(MainNext)

\* C15: once the browser is acquired, and unless an interruption arrives,
\* the run ends its tick loop, releases the browser and calls
\* maybe_build_video, whichever captures fail; the error of a capture never
\* leaves main().
C15_ReachesAssembly ==
    /\ (driver # None)
          ~> ((AssemblyStarted /\ LoopOverAndReleased)
                 \/ exc = "KeyboardInterrupt")
    /\ []((driver # None /\ exc = "Exception") => AssemblyStarted)

\* maybe_build_video was called after three captures that all failed
C15_Witness ==
    /\ pc = "which"
    /\ quits = 1
    /\ outcomes = << "error", "error", "error" >>

\* -------------------------------------------------------------------- C16

\* C16: a restore rename that fails does not end the restore loop: when
\* maybe_build_video returns after the encoder ran, os.rename was called
\* once for every pair of the mapping, and the only temporary files left
\* are those whose own rename failed.
C16_RestoreGoesOn ==
    /\ pc = "restore"
          => build.renames = Len(build.temps) + build.k
    /\ (Returned /\ build.runs = 1)
          => /\ build.k = Len(build.temps)
             /\ build.renames = 2 * Len(build.temps)
             /\ \A f \in dir : f.name.kind = "temp" => f.name \in build.lost

\* the first of three restore renames failed and the two after it were made
C16_Witness ==
    /\ Returned
    /\ Len(build.temps) = 3
    /\ build.lost = { TempName(0) }
    /\ build.renames = 6
    /\ { f.name.idx : f \in { g \in dir : g.name.kind = "temp" } } = {0}

\* -------------------------------------------------------------------- C17

\* C17: when a restore rename failed, maybe_build_video says so: what it
\* printed is not what it prints for the same run with every file renamed
\* back.
C17_RestoreFailureSurfaced ==
    (Returned /\ build.lost # {})
        => build.diag # Report([build EXCEPT !.lost = {}]).diag

\* the video of two frames was saved and one frame was left as
\* temp_000001.png
C17_SilentPartialRestore ==
    /\ Returned
    /\ build.lost = { TempName(1) }
    /\ Len(build.temps) = 2
    /\ build.diag = "video saved"

\* -------------------------------------------------------------------- C18

\* webdriver.Chrome has been started, or a tick has
Scheduled == launched \/ driver # None \/ attempts # << >>

\* C18: no run acquires the browser or runs a tick with an interval that is
\* not above 0 or with a shot count below 1, whatever --interval and --shots
\* or --duration were given.
C18_SessionValidated ==
    Scheduled => (args.interval > 0 /\ nshots >= 1)

\* the part of C18 that holds: a run given --duration is scheduled with one
\* shot or more, and never with the interval 0 (the division has raised)
C18_DurationSession ==
    (Scheduled /\ args.given = "duration")
        => (args.interval # 0 /\ nshots >= 1)

\* --interval 0 --shots 2: the second tick started without any wait
C18_ZeroInterval ==
    /\ args.interval = 0
    /\ args.given = "shots"
    /\ Len(attempts) = 2
    /\ sleeps = << 0 >>

\* --shots 0: the browser was started and released without a tick
C18_ZeroShots ==
    /\ args.given = "shots"
    /\ nshots = 0
    /\ launched
    /\ quits = 1
    /\ attempts = << >>

\* -------------------------------------------------------------------- C19

\* C19: fullpage_screenshot resizes the window to its current width and to
\* the content height capped at 20000: the height of the window is the
\* initial one or min(h, 20000) for a content height h, never above 20000,
\* and the width is the initial one after every tick.
C19_ResizeCapped ==
    /\ viewport.w = 1280
    /\ viewport.h \in {800} \cup { Min(h, 20000) : h \in PageHeights }
    /\ viewport.h <= 20000
    /\ max_height <= 20000
    /\ pc = "fp_resize" => max_height \in { Min(h, 20000) : h \in PageHeights }

\* a page 30000 high was captured in a window of 1280 by 20000, after a
\* tick that captured it 600 high
C19_Witness ==
    /\ snap = "fullpage"
    /\ viewport = [w |-> 1280, h |-> 20000]
    /\ Len(attempts) = 2
    /\ outcomes = << "done" >>

\* -------------------------------------------------------------------- C20

\* the names under which the ticks whose capture returned saved their frame
SavedNames ==
    { get_timestamped_name(k - 1, starts[k]) :
         k \in { n \in 1..Len(outcomes) : outcomes[n] = "done" } }

\* C20: a run interrupted inside its tick loop never calls
\* maybe_build_video: no file is renamed, the encoder is not run, and the
\* folder holds, under their screenshot names, the frames it held before the
\* run and exactly the frames of the ticks captured before the interruption.
C20_InterruptedNoAssembly ==
    InterruptedInLoop
        => /\ ~AssemblyStarted
           /\ build.renames = 0
           /\ build.runs = 0
           /\ \A f \in dir : f.name.kind = "screenshot"
           /\ { f \in dir : f.frame.session = "old" } \in OldStores
           /\ Names({ f \in dir : f.frame.session = "this" }) = SavedNames

\* a run of three ticks was interrupted in its third capture, after one
\* frame saved and one capture failed, in a folder of two old frames
C20_Witness ==
    /\ InterruptedInLoop
    /\ pc = "exited"
    /\ Len(attempts) = 3
    /\ outcomes = << "done", "error" >>
    /\ Cardinality(dir) = 3

====
